---- MODULE Spec2Model ----
(***************************************************************************)
(* Model of extract_pdf_text.py: a straight-line script that opens         *)
(* 'ro.pdf' with pypdf, writes the text of every page followed by a        *)
(* newline to 'ro_extracted.txt', and prints OK.                           *)
(*                                                                         *)
(* One action per statement of the script.  The collaborators (pypdf, the  *)
(* file system, pip) are the environment: each of their calls either       *)
(* returns or raises, chosen with \E.  The output file object is a         *)
(* buffered writer: f.write appends to an in-memory buffer which is        *)
(* flushed to the file when it outgrows its capacity and when the file     *)
(* is closed.  File content is modelled at the text layer (the characters  *)
(* handed to f.write, as a text-mode read returns them).                   *)
(***************************************************************************)
EXTENDS Naturals, Sequences, FiniteSets

\* ------------------------------------------------------------ bounds
MaxPages == 3
BufCap == 2

\* ------------------------------------------------------------ values
NL == "\n"

\* Page texts a PDF can yield: nothing, one line, several lines, a trailing newline.
PageTexts == {<<>>, <<"a">>, <<"b">>, <<"a", NL, "b">>, <<"b", NL>>}

\* What page.extract_text() does: returns None, returns a str, or raises.
NonePage == [kind |-> "none", val |-> <<>>]
RaisingPage == [kind |-> "raise", val |-> <<>>]
StrPage(t) == [kind |-> "str", val |-> t]
PageOutcomes == {NonePage, RaisingPage} \cup {StrPage(t) : t \in PageTexts}

Documents == UNION {[1..n -> PageOutcomes] : n \in 0..MaxPages}

\* State of 'ro_extracted.txt' before the first run: absent, empty, or stale.
AbsentFile == [exists |-> FALSE, content |-> <<>>]
StaleContent == <<"o", "l", "d", NL, "o", "l", "d", NL, "o", "l", "d", NL, "o", "l", "d", NL, "o", "l", "d", NL, "o", "l", "d">>
PriorFiles == {AbsentFile, [exists |-> TRUE, content |-> <<>>], [exists |-> TRUE, content |-> StaleContent]}

NoOutput == [valid |-> FALSE, content |-> <<>>]

VARIABLES
    pages,      \* reader.pages: what each page's extract_text will do
    disk,       \* 'ro_extracted.txt' on disk: [exists, content]
    pc,         \* the statement the script is at
    handle,     \* f: "unopened", "open" or "closed"
    buf,        \* characters accepted by f.write and not yet flushed
    i,          \* number of pages the for loop has finished
    text,       \* the local variable text
    exc,        \* the exception in flight ("none" when there is none)
    printed,    \* whether OK is on stdout
    prevOut,    \* content left by the latest earlier successful run
    nOpenIn,    \* calls of PdfReader('ro.pdf') in this run
    nOpenOut,   \* calls of open('ro_extracted.txt', 'w') in this run
    nExtract,   \* calls of extract_text in this run, per page
    steps       \* statements executed in this run

vars == <<pages, disk, pc, handle, buf, i, text, exc, printed, prevOut, nOpenIn, nOpenOut, nExtract, steps>>

env == <<pages, prevOut>>
locals == <<i, text>>
counters == <<nOpenIn, nOpenOut, nExtract>>

\* ------------------------------------------------------------ helpers
\* text = page.extract_text() or '': a falsy result (None, '') becomes ''.
OrEmptyStr(r) == IF r.kind = "none" THEN <<"N", "o", "n", "e">> ELSE r.val
OrEmpty(r) == IF r.kind = "none" \/ r.val = <<>> THEN <<>> ELSE r.val

\* for page in reader.pages: the page the loop is at after i finished pages.
CurrentPageReversed(ps, k) == ps[Len(ps) - k]
CurrentPage(ps, k) == ps[k + 1]

\* open(..., 'w'): the file exists afterwards and is truncated.
OpenAppend(d) == [exists |-> TRUE, content |-> d.content]
OpenTruncate(d) == [exists |-> TRUE, content |-> <<>>]

\* f.write('\n'): the string written after each page's text.
NoTerminator == <<>>
LineTerminator == <<NL>>

\* Leaving the with block closes f, whatever happened inside.
LeaveOpen(h) == h
CloseHandle(h) == "closed"

\* After the with block: an exception in flight propagates, else line 14 runs.
SwallowException(e) == "print"
AfterWith(e) == IF e = "none" THEN "print" ELSE "failed"

\* f.write(s): s joins the buffer; a buffer over capacity is flushed to disk.
\* ok = FALSE: the flush fails after writing only part of the buffer.
FWriteLosesBuffer(s, ok) ==
    LET nb == buf \o s IN
    IF ok
    THEN IF Len(nb) <= BufCap
         THEN buf' = nb /\ disk' = disk
         ELSE buf' = <<>> /\ disk' = [disk EXCEPT !.content = @ \o s]
    ELSE /\ Len(nb) > BufCap
         /\ \E k \in 0..(Len(nb) - 1) :
                /\ disk' = [disk EXCEPT !.content = @ \o SubSeq(nb, 1, k)]
                /\ buf' = SubSeq(nb, k + 1, Len(nb))

FWrite(s, ok) ==
    LET nb == buf \o s IN
    IF ok
    THEN IF Len(nb) <= BufCap
         THEN buf' = nb /\ disk' = disk
         ELSE buf' = <<>> /\ disk' = [disk EXCEPT !.content = @ \o nb]
    ELSE /\ Len(nb) > BufCap
         /\ \E k \in 0..(Len(nb) - 1) :
                /\ disk' = [disk EXCEPT !.content = @ \o SubSeq(nb, 1, k)]
                /\ buf' = SubSeq(nb, k + 1, Len(nb))

\* f.close(): flush what is buffered (all of it, or part when it fails).
FCloseNoFlush(ok) ==
    IF ok THEN disk' = disk ELSE buf # <<>> /\ disk' = disk

FClose(ok) ==
    IF ok
    THEN disk' = [disk EXCEPT !.content = @ \o buf]
    ELSE /\ buf # <<>>
         /\ \E k \in 0..(Len(buf) - 1) :
                disk' = [disk EXCEPT !.content = @ \o SubSeq(buf, 1, k)]

Terminal == pc \in {"done", "failed"}

\* ------------------------------------------------------------ initial state
Init ==
    /\ pages \in Documents
    /\ disk \in PriorFiles
    /\ pc = "import"
    /\ handle = "unopened"
    /\ buf = <<>>
    /\ i = 0
    /\ text = <<>>
    /\ exc = "none"
    /\ printed = FALSE
    /\ prevOut = NoOutput
    /\ nOpenIn = 0
    /\ nOpenOut = 0
    /\ nExtract = [k \in 1..Len(pages) |-> 0]
    /\ steps = 0

\* ------------------------------------------------------------ actions
\* Lines 3-6: import pypdf, or pip install it when the import fails.
EnsureDependency ==
    /\ pc = "import"
    /\ \E outcome \in {"imported", "installed", "install_failed"} :
           IF outcome = "install_failed"
           THEN pc' = "failed" /\ exc' = "CalledProcessError"
           ELSE pc' = "from_import" /\ exc' = exc
    /\ steps' = steps + 1
    /\ UNCHANGED <<env, disk, handle, buf, locals, printed, counters>>

\* Line 7: from pypdf import PdfReader.
ImportPdfReader ==
    /\ pc = "from_import"
    /\ \E ok \in BOOLEAN :
           IF ok
           THEN pc' = "open_input" /\ exc' = exc
           ELSE pc' = "failed" /\ exc' = "ImportError"
    /\ steps' = steps + 1
    /\ UNCHANGED <<env, disk, handle, buf, locals, printed, counters>>

\* Line 8: reader = PdfReader('ro.pdf').
OpenInputTruncating ==
    /\ pc = "open_input"
    /\ nOpenIn' = nOpenIn + 1
    /\ \E ok \in BOOLEAN :
           IF ok
           THEN pc' = "open_output" /\ exc' = exc /\ disk' = disk
           ELSE pc' = "failed" /\ exc' = "OpenFailed" /\ disk' = OpenTruncate(disk)
    /\ steps' = steps + 1
    /\ UNCHANGED <<env, handle, buf, locals, printed, nOpenOut, nExtract>>

OpenInputRetrying ==
    /\ pc = "open_input"
    /\ nOpenIn < 3
    /\ nOpenIn' = nOpenIn + 1
    /\ \E ok \in BOOLEAN :
           IF ok
           THEN pc' = "open_output" /\ exc' = exc
           ELSE pc' = "open_input" /\ exc' = exc
    /\ steps' = steps + 1
    /\ UNCHANGED <<env, disk, handle, buf, locals, printed, nOpenOut, nExtract>>

OpenInput ==
    /\ pc = "open_input"
    /\ nOpenIn' = nOpenIn + 1
    /\ \E ok \in BOOLEAN :
           IF ok
           THEN pc' = "open_output" /\ exc' = exc
           ELSE pc' = "failed" /\ exc' = "OpenFailed"
    /\ steps' = steps + 1
    /\ UNCHANGED <<env, disk, handle, buf, locals, printed, nOpenOut, nExtract>>

\* Line 9: with open('ro_extracted.txt', 'w', encoding='utf-8') as f.
OpenOutput ==
    /\ pc = "open_output"
    /\ nOpenOut' = nOpenOut + 1
    /\ \E ok \in BOOLEAN :
           IF ok
           THEN /\ disk' = OpenTruncate(disk)
                /\ handle' = "open"
                /\ pc' = "for"
                /\ exc' = exc
           ELSE /\ disk' = disk
                /\ handle' = handle
                /\ pc' = "failed"
                /\ exc' = "OutputOpenFailed"
    /\ buf' = <<>>
    /\ steps' = steps + 1
    /\ UNCHANGED <<env, locals, printed, nOpenIn, nExtract>>

\* Line 10: for page in reader.pages: the next page, or out of the loop.
ForPages ==
    /\ pc = "for"
    /\ pc' = IF i < Len(pages) THEN "extract" ELSE "exit_with"
    /\ steps' = steps + 1
    /\ UNCHANGED <<env, disk, handle, buf, locals, exc, printed, counters>>

\* Line 11: text = page.extract_text() or ''.
ExtractText ==
    /\ pc = "extract"
    /\ LET page == CurrentPage(pages, i) IN
           IF page.kind = "raise"
           THEN pc' = "exit_with" /\ exc' = "ExtractFailed" /\ text' = text
           ELSE pc' = "write_text" /\ exc' = exc /\ text' = OrEmpty(page)
    /\ nExtract' = [nExtract EXCEPT ![i + 1] = @ + 1]
    /\ steps' = steps + 1
    /\ UNCHANGED <<env, disk, handle, buf, i, printed, nOpenIn, nOpenOut>>

\* Line 12: f.write(text).
WriteText ==
    /\ pc = "write_text"
    /\ \E ok \in BOOLEAN :
           /\ FWrite(text, ok)
           /\ IF ok
              THEN pc' = "write_nl" /\ exc' = exc
              ELSE pc' = "exit_with" /\ exc' = "WriteFailed"
    /\ steps' = steps + 1
    /\ UNCHANGED <<env, handle, locals, printed, counters>>

\* Line 13: f.write('\n'), the last statement of the loop body.
WriteNewline ==
    /\ pc = "write_nl"
    /\ \E ok \in BOOLEAN :
           /\ FWrite(LineTerminator, ok)
           /\ IF ok
              THEN pc' = "for" /\ exc' = exc /\ i' = i + 1
              ELSE pc' = "exit_with" /\ exc' = "WriteFailed" /\ i' = i
    /\ steps' = steps + 1
    /\ UNCHANGED <<env, handle, text, printed, counters>>

\* Leaving the with block of line 9 (normally or by an exception): f.close().
ExitWith ==
    /\ pc = "exit_with"
    /\ \E ok \in BOOLEAN :
           /\ FClose(ok)
           /\ exc' = IF exc # "none" THEN exc ELSE IF ok THEN "none" ELSE "CloseFailed"
    /\ buf' = <<>>
    /\ handle' = CloseHandle(handle)
    /\ pc' = AfterWith(exc')
    /\ steps' = steps + 1
    /\ UNCHANGED <<env, locals, printed, counters>>

\* Line 14: print('OK').
PrintOK ==
    /\ pc = "print"
    /\ printed' = TRUE
    /\ pc' = "done"
    /\ steps' = steps + 1
    /\ UNCHANGED <<env, disk, handle, buf, locals, exc, counters>>

\* The script is run again on the same input; the output file stays on disk.
Rerun ==
    /\ Terminal
    /\ prevOut' = IF pc = "done" THEN [valid |-> TRUE, content |-> disk.content] ELSE prevOut
    /\ pc' = "import"
    /\ handle' = "unopened"
    /\ buf' = <<>>
    /\ i' = 0
    /\ text' = <<>>
    /\ exc' = "none"
    /\ printed' = FALSE
    /\ nOpenIn' = 0
    /\ nOpenOut' = 0
    /\ nExtract' = [k \in 1..Len(pages) |-> 0]
    /\ steps' = 0
    /\ UNCHANGED <<pages, disk>>

\* One run of the script: the statement at pc executes.
Statement ==
    \/ EnsureDependency
    \/ ImportPdfReader
    \/ OpenInput
    \/ OpenOutput
    \/ ForPages
    \/ ExtractText
    \/ WriteText
    \/ WriteNewline
    \/ ExitWith
    \/ PrintOK

Next ==
    \/ Statement
    \/ Rerun

Spec == Init /\ [][Next]_vars

\* ------------------------------------------------------------ properties
\* The statements below are written against the output contract alone: the
\* text of a page (None read as ''), the literal newline, the page order.
TextOf(p) == IF p.kind = "none" THEN <<>> ELSE p.val

RECURSIVE Expected(_)
Expected(ps) ==
    IF ps = <<>> THEN <<>>
    ELSE Expected(SubSeq(ps, 1, Len(ps) - 1)) \o TextOf(ps[Len(ps)]) \o <<NL>>

\* Everything f.write has accepted since the file was opened.
Written == disk.content \o buf

IsPrefix(s, t) == Len(s) <= Len(t) /\ SubSeq(t, 1, Len(s)) = s

CountNL(s) == Cardinality({k \in 1..Len(s) : s[k] = NL})

RECURSIVE EmbeddedNL(_)
EmbeddedNL(ps) ==
    IF ps = <<>> THEN 0
    ELSE EmbeddedNL(SubSeq(ps, 1, Len(ps) - 1)) + CountNL(TextOf(ps[Len(ps)]))

\* Reading the file back: its newline-terminated lines, without the newlines
\* (an unterminated remainder, if any, is the last line).
RECURSIVE SplitLines(_)
SplitLines(s) ==
    IF s = <<>> THEN <<>>
    ELSE LET ends == {k \in 1..Len(s) : s[k] = NL} IN
         IF ends = {} THEN <<s>>
         ELSE LET e == CHOOSE k \in ends : \A m \in ends : k <= m IN
              <<SubSeq(s, 1, e - 1)>> \o SplitLines(SubSeq(s, e + 1, Len(s)))

NoText(p) == p.kind = "none" \/ (p.kind = "str" /\ p.val = <<>>)
AllNonEmpty == \A k \in 1..Len(pages) : pages[k].kind = "str" /\ pages[k].val # <<>>
NoEmbeddedNL == \A k \in 1..Len(pages) : CountNL(TextOf(pages[k])) = 0
PageTextsOf == [k \in 1..Len(pages) |-> TextOf(pages[k])]

\* C1: after a successful run the output file exists and holds exactly
\* t_0 "\n" t_1 "\n" ... t_{N-1} "\n" in page order (None read as ''), and
\* nothing else; a 0-page document leaves an empty file.
C1_OutputIsPagesInOrder ==
    pc = "done" => disk.exists /\ disk.content = Expected(pages)

\* The spec's example: page texts "a", "", "b" give exactly "a\n\nb\n".
C1_Witness ==
    /\ pc = "done"
    /\ pages = <<StrPage(<<"a">>), StrPage(<<>>), StrPage(<<"b">>)>>
    /\ disk.content = <<"a", NL, NL, "b", NL>>

\* C2 as stated: after a successful run the number of newline-terminated
\* lines of the output equals the number of pages.
C2_LineCountEqualsPages ==
    pc = "done" => CountNL(disk.content) = Len(pages)

\* C2 amended: after a successful run the output ends with a newline (or is
\* empty) and its number of lines is the number of pages plus the number of
\* newlines embedded in the page texts; it is the number of pages exactly
\* when no page text contains a newline.
C2_LineCountIsPagesPlusEmbedded ==
    pc = "done" =>
        /\ CountNL(disk.content) = Len(pages) + EmbeddedNL(pages)
        /\ (NoEmbeddedNL => CountNL(disk.content) = Len(pages))
        /\ (disk.content # <<>> => disk.content[Len(disk.content)] = NL)
        /\ (Len(pages) > 0 => disk.content # <<>>)

C2_Witness ==
    /\ pc = "done"
    /\ Len(pages) = 2
    /\ EmbeddedNL(pages) = 1
    /\ CountNL(disk.content) = 3

\* C3: a page without text (None or '') does not raise, is not skipped and
\* puts exactly one "\n" at its position: extraction leaves text = '' and
\* writes nothing, writing '' adds nothing and cannot fail, the newline
\* write adds the one "\n", and the loop then goes on to the next page.
C3_EmptyPageWritesOneNewline ==
    [][(pc \in {"extract", "write_text", "write_nl"} /\ NoText(pages[i + 1])) =>
        CASE pc = "extract" ->
                 pc' = "write_text" /\ text' = <<>> /\ exc' = "none" /\ Written' = Written /\ i' = i
          [] pc = "write_text" ->
                 pc' = "write_nl" /\ exc' = "none" /\ Written' = Written /\ i' = i
          [] pc = "write_nl" ->
                 /\ Written' = Written \o <<NL>>
                 /\ (exc' = "none" => pc' = "for" /\ i' = i + 1)
                 /\ (exc' # "none" => exc' = "WriteFailed")]_vars

C3_Witness ==
    /\ pc = "done"
    /\ Len(pages) = 3
    /\ pages[1].kind = "none"
    /\ pages[2] = StrPage(<<>>)
    /\ pages[3] = StrPage(<<"a">>)
    /\ disk.content = <<NL, NL, "a", NL>>

\* C4: up to and including a failing PdfReader('ro.pdf') the output file is
\* not opened, created, truncated or written and OK is not printed; the
\* failure ends the run, and an ended run does not touch the file.
C4_OpenFailureLeavesOutputUntouched ==
    [][/\ (pc \in {"import", "from_import", "open_input"} =>
              /\ disk' = disk
              /\ handle' = "unopened"
              /\ nOpenOut' = 0
              /\ printed' = FALSE
              /\ buf' = <<>>)
       /\ (exc' = "OpenFailed" => pc' = "failed" /\ handle' = "unopened" /\ ~printed')
       /\ (pc = "failed" => disk' = disk)]_vars

C4_Witness ==
    /\ pc = "failed"
    /\ exc = "OpenFailed"
    /\ disk.content = StaleContent
    /\ nOpenOut = 0

\* C5: OK is printed only in a run that extracted and wrote every page and
\* closed the file, and such a run prints it; a run in which anything
\* raised never prints OK and ends failed.
C5_OkOnlyOnFullSuccess ==
    /\ (printed =>
            /\ pc = "done"
            /\ exc = "none"
            /\ handle = "closed"
            /\ buf = <<>>
            /\ i = Len(pages)
            /\ \A k \in 1..Len(pages) : nExtract[k] = 1 /\ pages[k].kind # "raise")
    /\ (pc = "done" => printed)
    /\ (exc # "none" => ~printed /\ pc \in {"exit_with", "failed"})
    /\ (pc = "failed" => exc # "none")

C5_Witness ==
    /\ pc = "failed"
    /\ exc = "WriteFailed"
    /\ i >= 1
    /\ ~printed

\* C6: a successful run leaves the same content as the latest earlier
\* successful run on the same document, whatever the file held in between.
C6_RerunIsIdempotent ==
    (pc = "done" /\ prevOut.valid) => disk.content = prevOut.content

C6_Witness ==
    /\ pc = "done"
    /\ prevOut.valid
    /\ Len(pages) = 2
    /\ Len(prevOut.content) > 2

\* C7 as stated: when every page has non-empty text, the lines of the output
\* of a successful run are the page texts, page by page.
C7_RoundTripNonEmpty ==
    (pc = "done" /\ AllNonEmpty) => SplitLines(disk.content) = PageTextsOf

\* C7 amended: when every page has non-empty text and no page text contains
\* a newline, the lines of the output of a successful run are the page
\* texts, page by page.
C7_RoundTripSingleLinePages ==
    (pc = "done" /\ AllNonEmpty /\ NoEmbeddedNL) => SplitLines(disk.content) = PageTextsOf

C7_Witness ==
    /\ pc = "done"
    /\ pages = <<StrPage(<<"a">>), StrPage(<<"b">>), StrPage(<<"a">>)>>
    /\ SplitLines(disk.content) = <<<<"a">>, <<"b">>, <<"a">>>>

\* C8: the output handle is never open when a run has ended, and it is
\* closed before OK is printed.
C8_HandleReleased ==
    /\ (Terminal => handle # "open")
    /\ (Terminal /\ nOpenOut = 1 /\ exc # "OutputOpenFailed" => handle = "closed")
    /\ (pc = "print" \/ printed => handle = "closed")

C8_Witness ==
    /\ pc = "failed"
    /\ exc = "ExtractFailed"
    /\ i = 1
    /\ handle = "closed"

\* C9: while the file is open, what has been written is the lines of the
\* finished pages in order, plus the text of the current page once line 12
\* ran; a page is extracted only when all pages before it are written in
\* full; a run that ends after opening the file leaves a prefix of that.
C9_InOrderPrefix ==
    LET donePart == Expected(SubSeq(pages, 1, i))
        cur == TextOf(pages[i + 1])
    IN  /\ (handle = "open" /\ pc \in {"for", "extract", "write_text"} => Written = donePart)
        /\ (handle = "open" /\ pc = "write_nl" => Written = donePart \o cur)
        /\ (handle = "open" /\ pc = "exit_with" =>
                \/ Written = donePart
                \/ /\ i < Len(pages)
                   /\ pages[i + 1].kind # "raise"
                   /\ Written \in {donePart \o cur, donePart \o cur \o <<NL>>})
        /\ (handle = "open" => \A k \in 1..Len(pages) :
                nExtract[k] > 0 => k <= i + 1 /\ IsPrefix(Expected(SubSeq(pages, 1, k - 1)), Written))
        /\ (handle = "closed" =>
                IsPrefix(disk.content,
                         IF i < Len(pages) /\ pages[i + 1].kind # "raise"
                         THEN donePart \o cur \o <<NL>> ELSE donePart))

C9_Witness ==
    /\ pc = "failed"
    /\ exc = "WriteFailed"
    /\ i = 1
    /\ Len(pages) = 3
    /\ IsPrefix(Expected(SubSeq(pages, 1, 1)), disk.content)
    /\ Len(disk.content) > Len(Expected(SubSeq(pages, 1, 1)))

\* C10: a run opens the input at most once, the output at most once and
\* extracts each page at most once (exactly once on success); it executes
\* at most 4N + 7 statements, and until it has ended a statement can run.
C10_TerminatesWithoutRetry ==
    /\ nOpenIn <= 1
    /\ nOpenOut <= 1
    /\ \A k \in 1..Len(pages) : nExtract[k] <= 1
    /\ (pc = "done" => nOpenIn = 1 /\ nOpenOut = 1 /\ \A k \in 1..Len(pages) : nExtract[k] = 1)
    /\ steps <= 4 * Len(pages) + 7
    /\ (~Terminal => ENABLED Statement)
    /\ (Terminal => ~ENABLED Statement)

C10_Witness ==
    /\ pc = "done"
    /\ Len(pages) = 3
    /\ steps = 4 * Len(pages) + 7

====
